---- MODULE Spec2Model ----
(***************************************************************************)
(* A model of ansible_runner/utils/__init__.py: the OutputEventFilter      *)
(* stream decoder, dump_artifact's sentinel-lock protocol, the             *)
(* collect_new_events directory poller, cleanup_folder and                 *)
(* cleanup_artifact_dir, open_fifo_write and signal_handler.               *)
(***************************************************************************)
EXTENDS Integers, Sequences, FiniteSets, TLC

VARIABLES
    filt,       \* the OutputEventFilter instance (its fields and what it passed on)
    closed,     \* close() has returned
    nwrites,    \* number of write() calls made so far
    stream,     \* the fixed input stream of the chunking runs
    pos,        \* how much of stream has been written
    proc,       \* the processes calling dump_artifact: position and locals of each
    fs,         \* the artifact directory: target files, sentinel, inodes, locks
    calls,      \* number of dump_artifact calls started so far
    evdir,      \* the event directory: the content of each file in it
    seen,       \* the keys of old_events, the caller's dict
    gen,        \* the collect_new_events generator being consumed
    yielded,    \* what the current call has yielded, in order
    opened,     \* the files the poller has opened, in order, over all calls
    collected,  \* the files whose event the caller was handed, in order, over all calls
    polls,      \* number of collect_new_events calls started so far
    tree,       \* the directory given to cleanup_folder and cleanup_artifact_dir
    clock,      \* the modification time given to the entry changed last
    lastcall,   \* the last cleanup call: its arguments and how it ended
    fifos,      \* the named pipes: each with its worker thread and its reader
    fcall,      \* the last open_fifo_write call: its arguments and how it ended
    handlers,   \* the handler installed for SIGTERM and for SIGINT
    events,     \* the signal_event of every signal_handler() call, in call order
    owed,       \* for every such call, whether a signal was delivered since
    said,       \* for every such call, what its predicate has reported
    mainpc,     \* where the main thread is in signal_handler()
    ret         \* what the last signal_handler() call returned

filterVars == <<filt, closed, nwrites, stream, pos>>
artifactVars == <<proc, fs, calls>>
pollVars == <<evdir, seen, gen, yielded, opened, collected, polls>>
rotateVars == <<tree, clock, lastcall>>
fifoVars == <<fifos, fcall>>
signalVars == <<handlers, events, owed, said, mainpc, ret>>
utilVars == <<rotateVars, fifoVars, signalVars>>
vars == <<filt, closed, nwrites, stream, pos, proc, fs, calls,
          evdir, seen, gen, yielded, opened, collected, polls,
          tree, clock, lastcall, fifos, fcall, handlers, events, owed, said, mainpc, ret>>

(***************************************************************************)
(* Text.  A str is a sequence of one-character strings.                    *)
(***************************************************************************)
ESC == "\\x1b"
NL == "\n"
CR == "\r"

\* [A-Za-z0-9+/=] restricted to the characters the model's inputs use
B64Chars == {"K", "D", "1", "2", "a", "b", "c", "u", "m", "l", "s", "n", "q"}
\* \d restricted likewise
Digits == {"1", "2"}

\* the start/end token \x1b[K
MARK == <<ESC, "[", "K">>
\* a cursor-reposition sequence \x1b[1D
CUR == <<ESC, "[", "1", "D">>

At(s, i) == IF i >= 1 /\ i <= Len(s) THEN s[i] ELSE "<eos>"

StartsWithAt(s, i, p) ==
    /\ i + Len(p) - 1 <= Len(s)
    /\ \A k \in 1..Len(p) : s[i + k - 1] = p[k]

\* sub in s
Contains(s, p) == \E i \in 1..Len(s) : StartsWithAt(s, i, p)

RECURSIVE SkipClass(_, _, _)
\* the first index j >= i with s[j] outside class cls
SkipClass(s, i, cls) ==
    IF At(s, i) \in cls THEN SkipClass(s, i + 1, cls) ELSE i

\* one (?:[A-Za-z0-9+/=]+\x1b\[\d+D): the index after it, 0 when it does not match
GroupEnd(s, i) ==
    LET j == SkipClass(s, i, B64Chars)
        k == SkipClass(s, j + 2, Digits)
    IN  IF j > i /\ At(s, j) = ESC /\ At(s, j + 1) = "[" /\ k > j + 2 /\ At(s, k) = "D"
        THEN k + 1
        ELSE 0

RECURSIVE GroupsEnd(_, _)
\* (?:...)+ : the index after the last group, 0 when no group matches at i
GroupsEnd(s, i) ==
    LET g == GroupEnd(s, i)
    IN  IF g = 0 THEN 0
        ELSE IF At(s, g) \in B64Chars /\ GroupsEnd(s, g) # 0 THEN GroupsEnd(s, g)
        ELSE g

\* EVENT_DATA_RE matched at index i: [start, end (exclusive), group(1)], end = 0 for no match
MatchAt(s, i) ==
    LET g == IF StartsWithAt(s, i, MARK) THEN GroupsEnd(s, i + 3) ELSE 0
    IN  IF g # 0 /\ StartsWithAt(s, g, MARK)
        THEN [start |-> i, end |-> g + 3, group1 |-> SubSeq(s, i + 3, g - 1)]
        ELSE [start |-> i, end |-> 0, group1 |-> <<>>]

NoMatch == [start |-> 0, end |-> 0, group1 |-> <<>>]

\* EVENT_DATA_RE.search(value): the leftmost match
EVENT_DATA_RE_search(s) ==
    LET hits == {i \in 1..Len(s) : MatchAt(s, i).end # 0}
    IN  IF hits = {} THEN NoMatch
        ELSE MatchAt(s, CHOOSE i \in hits : \A j \in hits : i <= j)

RECURSIVE StripCursor(_)
\* re.sub(r'\x1b\[\d+D', '', s)
StripCursor(s) ==
    IF s = <<>> THEN <<>>
    ELSE LET k == SkipClass(s, 3, Digits)
         IN  IF s[1] = ESC /\ At(s, 2) = "[" /\ k > 3 /\ At(s, k) = "D"
             THEN StripCursor(SubSeq(s, k + 1, Len(s)))
             ELSE <<s[1]>> \o StripCursor(Tail(s))

RECURSIVE rstrip(_)
\* s.rstrip('\n\r')
rstrip(s) ==
    IF s # <<>> /\ s[Len(s)] \in {NL, CR} THEN rstrip(SubSeq(s, 1, Len(s) - 1)) ELSE s

\* s.count('\n')
count_newlines(s) == Cardinality({i \in 1..Len(s) : s[i] = NL})

\* the index of the last character of the first line of s (its line end included)
FirstLineEnd(s) ==
    LET ends == {i \in 1..Len(s) : s[i] \in {NL, CR}}
        e == CHOOSE i \in ends : \A j \in ends : i <= j
    IN  IF ends = {} THEN Len(s)
        ELSE IF s[e] = CR /\ At(s, e + 1) = NL THEN e + 1
        ELSE e

RECURSIVE splitlines(_)
\* s.splitlines(True): \n, \r and \r\n end a line (the other line boundaries of
\* str.splitlines, such as \v and \f, behave as \r does here)
splitlines(s) ==
    IF s = <<>> THEN <<>>
    ELSE LET e == FirstLineEnd(s)
         IN  <<SubSeq(s, 1, e)>> \o splitlines(SubSeq(s, e + 1, Len(s)))

(***************************************************************************)
(* Python values.  A dict is a function from its keys; a decoded JSON      *)
(* value is tagged with its type.                                          *)
(***************************************************************************)
None == [None |-> TRUE]
EmptyDict == [k \in {} |-> 0]

Keys(d) == DOMAIN d
\* d[k] = v
Put(d, k, v) == [x \in (DOMAIN d) \cup {k} |-> IF x = k THEN v ELSE d[x]]

JDict(d) == [t |-> "dict", v |-> d]
JList == [t |-> "list", v |-> EmptyDict]      \* a non-empty list
JStr == [t |-> "str", v |-> EmptyDict]        \* a non-empty string
JZero == [t |-> "int", v |-> EmptyDict]       \* the number 0

\* bool(j) of a decoded JSON value
Truthy(j) ==
    CASE j.t = "dict" -> Keys(j.v) # {}
      [] j.t = "int" -> FALSE
      [] OTHER -> TRUE

\* json.loads(base64.b64decode(base64_data).decode('utf-8')): the payloads the
\* inputs use, written as the text between the markers with the cursor
\* sequences removed; every other text fails to decode (ValueError)
ValueError == [t |-> "ValueError", v |-> EmptyDict]
b64_json_loads(base64_data) ==
    CASE base64_data = <<"u", "1">> -> JDict([event |-> "task", uuid |-> "u1"])
      [] base64_data = <<"u", "2">> -> JDict([event |-> "play", uuid |-> "u2"])
      [] base64_data = <<"m">> -> JDict([event |-> "stats"])
      [] base64_data = <<"l">> -> JList
      [] base64_data = <<"s">> -> JStr
      [] base64_data = <<"n">> -> JZero
      [] OTHER -> ValueError

\* lines 325-329: the payload of a match, {} on a ValueError
DecodePayload(group1) ==
    LET event_data == b64_json_loads(StripCursor(group1))
    IN  IF event_data.t = "ValueError" THEN JDict(EmptyDict) ELSE event_data

(***************************************************************************)
(* OutputEventFilter                                                       *)
(***************************************************************************)
\* __init__
OutputEventFilter(output_json) ==
    [ counter |-> 0,
      start_line |-> 0,
      buffer |-> <<>>,
      last_chunk |-> <<>>,
      current_event_data |-> None,
      output_json |-> output_json,
      callback |-> <<>>,    \* the events passed to _event_callback, in order
      chunks |-> <<>>,      \* the stdout_chunk each of them was made from
      decoded |-> <<>>,     \* the uuids of the payloads made pending, in order
      handle |-> <<>>,      \* what was written to _handle, each text with the
                            \* counter of the event whose stdout it is
      handle_closed |-> FALSE,
      raised |-> "" ]       \* the exception the last call raised, "" for none

\* str(uuid.uuid4()): a value no other event carries
uuid4(counter) == "uuid4-" \o ToString(counter)

\* a counter that is never advanced
NextCounterStuck(counter) == counter

\* self._counter += 1
NextCounter(counter) == counter + 1

\* a line cursor advanced by one per event, whatever the chunk holds
NextStartLinePerEvent(start_line, n_lines) == start_line + 1

\* self._start_line += n_lines
NextStartLine(start_line, n_lines) == start_line + n_lines

\* lines 397-406: one pass of the loop over stdout_chunks
EmitChunk(f, event_data, stdout_chunk) ==
    LET e1 == IF "event" \in Keys(event_data) /\ event_data["event"] = "verbose"
              THEN Put(event_data, "uuid", uuid4(f.counter))
              ELSE event_data
        c == NextCounter(f.counter)
        n_lines == count_newlines(stdout_chunk)
        e2 == Put(Put(Put(Put(e1, "counter", c), "stdout", rstrip(stdout_chunk)),
                      "start_line", f.start_line), "end_line", f.start_line + n_lines)
    IN  [ f |-> [f EXCEPT !.counter = c,
                          !.start_line = NextStartLine(f.start_line, n_lines),
                          !.callback = Append(@, e2),
                          !.chunks = Append(@, stdout_chunk)],
          event_data |-> e2 ]

RECURSIVE EmitChunks(_, _, _)
\* lines 396-406: the loop over stdout_chunks
EmitChunks(f, event_data, stdout_chunks) ==
    IF stdout_chunks = <<>> THEN [f |-> f, event_data |-> event_data]
    ELSE LET r == EmitChunk(f, event_data, Head(stdout_chunks))
         IN  EmitChunks(r.f, r.event_data, Tail(stdout_chunks))

\* lines 407-410: which payload is pending after the call
NextPending(next_event_data) ==
    IF "uuid" \in Keys(next_event_data) /\ next_event_data["uuid"] # ""
    THEN next_event_data
    ELSE None

\* _emit_event(buffered_stdout, next_event_data): the filter afterwards and the
\* event_data returned; next_event_data is a decoded JSON value or None
emit_event(f, buffered_stdout, next_event_data) ==
    LET next == IF next_event_data = None \/ ~Truthy(next_event_data)
                THEN JDict(EmptyDict)
                ELSE next_event_data
        pending == f.current_event_data # None
        event_data == IF pending THEN f.current_event_data
                      ELSE IF buffered_stdout # <<>> THEN [event |-> "verbose"]
                      ELSE EmptyDict
        stdout_chunks == IF pending THEN <<buffered_stdout>>
                         ELSE IF buffered_stdout # <<>> THEN splitlines(buffered_stdout)
                         ELSE <<>>
        r == EmitChunks(f, event_data, stdout_chunks)
    IN  IF next.t # "dict"
        THEN \* next_event_data.get: AttributeError, a list, str or int has no get
             [f |-> [r.f EXCEPT !.raised = "AttributeError"], event_data |-> r.event_data]
        ELSE LET p == NextPending(next.v)
             IN  [ f |-> [r.f EXCEPT !.current_event_data = p,
                                     !.decoded = IF p = None THEN @ ELSE Append(@, p["uuid"])],
                   event_data |-> r.event_data ]

\* json.dumps(event_data) is "{}"
IsEmptyJson(event_data) == Keys(event_data) = {}

\* lines 331-346: what a match writes to the transcript
EchoEvent(f, event_data) ==
    IF f.output_json
    THEN IF IsEmptyJson(event_data) THEN f.handle
         ELSE Append(f.handle, [json |-> event_data])
    ELSE IF "stdout" \in Keys(event_data) /\ event_data["stdout"] # <<>>
         THEN Append(f.handle, [text |-> event_data["stdout"] \o <<NL>>,
                                counter |-> event_data["counter"]])
         ELSE f.handle

RECURSIVE SearchLoop(_)
\* lines 320-348: the while loop, entered with should_search true
SearchLoop(f) ==
    LET value == f.buffer
        match == EVENT_DATA_RE_search(value)
        r == emit_event(f, SubSeq(value, 1, match.start - 1), DecodePayload(match.group1))
        remainder == SubSeq(value, match.end, Len(value))
    IN  IF match.end = 0 THEN f
        ELSE IF r.f.raised # "" THEN r.f
        ELSE SearchLoop([r.f EXCEPT !.buffer = remainder,
                                    !.handle = EchoEvent(r.f, r.event_data),
                                    !.last_chunk = remainder])

RECURSIVE EmitLines(_, _)
\* lines 359-365: emit all complete lines
EmitLines(f, lines) ==
    IF lines = <<>> THEN f
    ELSE LET r == emit_event(f, Head(lines), None)
         IN  EmitLines([r.f EXCEPT !.handle = Append(@, [text |-> Head(lines),
                                                         counter |-> r.f.counter])],
                       Tail(lines))

\* lines 351-369: verbose stdout outside of event data context
LineFlush(f, data) ==
    IF data # <<>> /\ (\E i \in 1..Len(data) : data[i] = NL)
       /\ f.current_event_data = None
    THEN LET all == splitlines(f.buffer)
             last == all[Len(all)]
             partial == \A i \in 1..Len(last) : last[i] # NL
             lines == IF partial THEN SubSeq(all, 1, Len(all) - 1) ELSE all
             remainder == IF partial THEN last ELSE <<>>
         IN  [EmitLines(f, lines) EXCEPT !.buffer = remainder]
    ELSE f

\* line 315: the sliding window of the last two chunks holds a token
should_search(last_chunk, data) == Contains(last_chunk \o data, MARK)

\* write(data)
write(f, data) ==
    LET f1 == [f EXCEPT !.buffer = @ \o data, !.last_chunk = data, !.raised = ""]
    IN  IF should_search(f.last_chunk, data) THEN SearchLoop(f1) ELSE LineFlush(f1, data)

EOF_event == [event |-> "EOF"]

\* lines 372-375: the text still buffered goes through _emit_event
FlushBuffer(f) ==
    IF f.buffer # <<>>
    THEN [emit_event(f, f.buffer, None).f EXCEPT !.buffer = <<>>]
    ELSE f

\* a close() that passes EOF on only when it had text to flush
closeEofOnlyAfterFlush(f) ==
    LET f1 == FlushBuffer([f EXCEPT !.raised = ""])
    IN  IF f.buffer = <<>> THEN [f1 EXCEPT !.handle_closed = TRUE]
        ELSE [f1 EXCEPT !.callback = Append(@, EOF_event),
                        !.chunks = Append(@, <<>>),
                        !.handle_closed = TRUE]

\* close()
close(f) ==
    LET f1 == FlushBuffer([f EXCEPT !.raised = ""])
    IN  [f1 EXCEPT !.callback = Append(@, EOF_event),
                   !.chunks = Append(@, <<>>),
                   !.handle_closed = TRUE]

(***************************************************************************)
(* dump_artifact(obj, path, filename), called by several processes on one  *)
(* directory.  Every step is one system call.                              *)
(***************************************************************************)
NProc == 3
MaxCalls == 3

Procs == 1..NProc
Filenames == {"f", "g"}
\* the texts callers dump; the last one holds a carriage return
Contents == {<<"x">>, <<"y">>, <<"x", CR, NL>>}
NoFile == <<"<absent>">>    \* the file does not exist
Truncated == <<>>           \* the content of a file just opened with 'w'
Unbound == <<"<unbound>", <<>>>>    \* a local that was never assigned

\* the calls made concurrently, and the calls made one after the other
ConcurrentInputs == {<< <<"x">>, "f">>, << <<"y">>, "f">>, << <<"x">>, "g">>}
AllInputs == Contents \X Filenames

\* hashlib.sha1 of a text: equal digests exactly for equal texts
sha1(text) == <<"sha1", text>>

RECURSIVE universal_newlines(_)
\* what f.read() returns for a file opened with open(fn): text mode with
\* newline=None turns every \r\n and every \r into \n
universal_newlines(bytes) ==
    IF bytes = <<>> THEN <<>>
    ELSE IF bytes[1] = CR
         THEN <<NL>> \o universal_newlines(SubSeq(bytes, IF At(bytes, 2) = NL THEN 3 ELSE 2,
                                                  Len(bytes)))
         ELSE <<bytes[1]>> \o universal_newlines(Tail(bytes))

\* what f.write(str(obj)) puts in a file opened with open(fn, 'w'): \n becomes
\* os.linesep, which is \n where fcntl exists; \r is written as it is
written_bytes(obj) == obj

\* os.path.join(path, filename)
path_join(path, filename) == <<path, filename>>

IdleProc ==
    [ pc |-> "idle", obj |-> <<>>, filename |-> "f", c_sha1 |-> Unbound,
      lock_fd |-> 0,
      result |-> <<>>,     \* the value returned
      exc |-> "",          \* the exception raised

      pre |-> NoFile,      \* the content of the target when the call started
      writes |-> 0,        \* times this call opened the target for writing
      opens |-> 0 ]        \* times this call opened the sentinel

\* a directory nobody has called dump_artifact on
EmptyDir ==
    [ dir |-> FALSE, files |-> [n \in Filenames |-> NoFile],
      lock_fp |-> 0, next_ino |-> 1, locks |-> {} ]

ArtifactAtRest ==
    /\ proc = [p \in Procs |-> IdleProc]
    /\ fs = EmptyDir
    /\ calls = 0

InitArtifact ==
    /\ proc = [p \in Procs |-> IdleProc]
    /\ \E dir \in BOOLEAN :
         \E files \in [Filenames -> Contents \cup {NoFile}] :
            /\ dir \/ \A n \in Filenames : files[n] = NoFile
            /\ fs = [ dir |-> dir,
                      files |-> files,
                      lock_fp |-> 0,       \* inode of .artifact_write_lock, 0: no such file
                      next_ino |-> 1,
                      locks |-> {} ]       \* <<inode, process>>: the lockf locks held
    /\ calls = 0

Quiet == {"idle", "returned", "raised"}

Goto(p, label) == [proc EXCEPT ![p].pc = label]

\* a process calls dump_artifact(obj, "dir", filename)
CallWith(p, inputs) ==
    /\ proc[p].pc \in Quiet
    /\ calls < MaxCalls
    /\ \E input \in inputs :
          proc' = [proc EXCEPT ![p] = [IdleProc EXCEPT !.pc = "L139", !.obj = input[1],
                                          !.filename = input[2],
                                          !.pre = fs.files[input[2]]]]
    /\ calls' = calls + 1
    /\ UNCHANGED <<fs, filterVars, pollVars, utilVars>>

Call(p) == CallWith(p, ConcurrentInputs)

\* line 139: if not os.path.exists(path)
CheckDir(p) ==
    /\ proc[p].pc = "L139"
    /\ proc' = Goto(p, IF fs.dir THEN "L150" ELSE "L140")
    /\ UNCHANGED <<fs, calls, filterVars, pollVars, utilVars>>

\* line 140: os.makedirs(path, mode=0o700), FileExistsError when it exists by now
MakeDirs(p) ==
    /\ proc[p].pc = "L140"
    /\ IF fs.dir
       THEN /\ proc' = [proc EXCEPT ![p].pc = "raised", ![p].exc = "FileExistsError"]
            /\ fs' = fs
       ELSE /\ proc' = Goto(p, "L150")
            /\ fs' = [fs EXCEPT !.dir = TRUE]
    /\ UNCHANGED <<calls, filterVars, pollVars, utilVars>>

\* line 150: if os.path.exists(fn)
CheckTarget(p) ==
    /\ proc[p].pc = "L150"
    /\ proc' = Goto(p, IF fs.files[proc[p].filename] # NoFile THEN "L152" ELSE "L156")
    /\ UNCHANGED <<fs, calls, filterVars, pollVars, utilVars>>

\* lines 151-154: c_sha1 of what the target holds when it is read
ReadTarget(p) ==
    /\ proc[p].pc = "L152"
    /\ proc' = [proc EXCEPT ![p].pc = "L156",
                            ![p].c_sha1 = sha1(universal_newlines(fs.files[proc[p].filename]))]
    /\ UNCHANGED <<fs, calls, filterVars, pollVars, utilVars>>

\* line 156: not os.path.exists(fn) or p_sha1.hexdigest() != c_sha1.hexdigest()
NeedsWrite(exists, p_sha1, c_sha1) == ~exists \/ p_sha1 # c_sha1

\* line 156; c_sha1 is read although line 150 never bound it when the target
\* appeared in between: UnboundLocalError
Decide(p) ==
    /\ proc[p].pc = "L156"
    /\ LET exists == fs.files[proc[p].filename] # NoFile
       IN  proc' = IF exists /\ proc[p].c_sha1 = Unbound
                   THEN [proc EXCEPT ![p].pc = "raised", ![p].exc = "UnboundLocalError"]
                   ELSE IF NeedsWrite(exists, sha1(proc[p].obj), proc[p].c_sha1)
                   THEN Goto(p, "L158")
                   ELSE Goto(p, "L170")
    /\ UNCHANGED <<fs, calls, filterVars, pollVars, utilVars>>

\* lines 157-158: os.open(lock_fp, os.O_RDWR | os.O_CREAT, ...): the inode the
\* name has now, a new one when there is no such file
OpenLock(p) ==
    /\ proc[p].pc = "L158"
    /\ LET ino == IF fs.lock_fp = 0 THEN fs.next_ino ELSE fs.lock_fp
       IN  /\ proc' = [proc EXCEPT ![p].pc = "L159", ![p].lock_fd = ino,
                                   ![p].opens = @ + 1]
           /\ fs' = IF fs.lock_fp = 0
                    THEN [fs EXCEPT !.lock_fp = ino, !.next_ino = @ + 1]
                    ELSE fs
    /\ UNCHANGED <<calls, filterVars, pollVars, utilVars>>

\* line 159: fcntl.lockf(lock_fd, fcntl.LOCK_EX) returns when no other process
\* holds a lock on the inode
LockEx(p) ==
    /\ proc[p].pc = "L159"
    /\ \A q \in Procs \ {p} : <<proc[p].lock_fd, q>> \notin fs.locks
    /\ proc' = Goto(p, "L162")
    /\ fs' = [fs EXCEPT !.locks = @ \cup {<<proc[p].lock_fd, p>>}]
    /\ UNCHANGED <<calls, filterVars, pollVars, utilVars>>

\* lines 162-163: open(fn, 'w') creates or truncates the target (os.chmod
\* changes its mode only)
OpenTarget(p) ==
    /\ proc[p].pc = "L162"
    /\ proc' = [proc EXCEPT ![p].pc = "L164", ![p].writes = @ + 1]
    /\ fs' = [fs EXCEPT !.files[proc[p].filename] = Truncated]
    /\ UNCHANGED <<calls, filterVars, pollVars, utilVars>>

\* line 164 and the end of the with block: the text reaches the file
WriteTarget(p) ==
    /\ proc[p].pc = "L164"
    /\ proc' = Goto(p, "L166")
    /\ fs' = [fs EXCEPT !.files[proc[p].filename] = written_bytes(proc[p].obj)]
    /\ UNCHANGED <<calls, filterVars, pollVars, utilVars>>

\* line 166: fcntl.lockf(lock_fd, fcntl.LOCK_UN)
Unlock(p) ==
    /\ proc[p].pc = "L166"
    /\ proc' = Goto(p, "L167")
    /\ fs' = [fs EXCEPT !.locks = @ \ {<<proc[p].lock_fd, p>>}]
    /\ UNCHANGED <<calls, filterVars, pollVars, utilVars>>

\* line 167: os.close(lock_fd)
CloseLock(p) ==
    /\ proc[p].pc = "L167"
    /\ proc' = [proc EXCEPT ![p].pc = "L168", ![p].lock_fd = 0]
    /\ UNCHANGED <<fs, calls, filterVars, pollVars, utilVars>>

\* line 168: os.remove(lock_fp), FileNotFoundError when the name is gone
RemoveLock(p) ==
    /\ proc[p].pc = "L168"
    /\ IF fs.lock_fp = 0
       THEN /\ proc' = [proc EXCEPT ![p].pc = "raised", ![p].exc = "FileNotFoundError"]
            /\ fs' = fs
       ELSE /\ proc' = Goto(p, "L170")
            /\ fs' = [fs EXCEPT !.lock_fp = 0]
    /\ UNCHANGED <<calls, filterVars, pollVars, utilVars>>

\* line 170: return fn
Return(p) ==
    /\ proc[p].pc = "L170"
    /\ proc' = [proc EXCEPT ![p].pc = "returned",
                            ![p].result = path_join("dir", proc[p].filename)]
    /\ UNCHANGED <<fs, calls, filterVars, pollVars, utilVars>>

Step(p) ==
    \/ CheckDir(p) \/ MakeDirs(p) \/ CheckTarget(p) \/ ReadTarget(p) \/ Decide(p)
    \/ OpenLock(p) \/ LockEx(p) \/ OpenTarget(p) \/ WriteTarget(p)
    \/ Unlock(p) \/ CloseLock(p) \/ RemoveLock(p) \/ Return(p)

\* processes calling concurrently
NextArtifact == \E p \in Procs : Call(p) \/ Step(p)

\* calls made one after the other: a call starts when no other is under way
CallSeq(p) == (\A q \in Procs : proc[q].pc \in Quiet) /\ CallWith(p, AllInputs)
NextSeq == \E p \in Procs : CallSeq(p) \/ Step(p)

(***************************************************************************)
(* collect_new_events(event_path, old_events), consumed by a caller while  *)
(* a producer adds event files to the directory.  A file name is a         *)
(* sequence of characters.                                                 *)
(***************************************************************************)
MaxPolls == 2

N1 == <<"1", "-", "a", ".", "j", "s", "o", "n">>
N2 == <<"2", "-", "b", ".", "j", "s", "o", "n">>
N10 == <<"1", "0", "-", "c", ".", "j", "s", "o", "n">>
N3P == <<"3", "-", "b", "-", "p", "a", "r", "t", "i", "a", "l", ".", "j", "s", "o", "n">>
NX == <<"x", "1", "-", "d", ".", "j", "s", "o", "n">>
NT == <<"4", "-", "j", "s", "o", "n">>

\* the names a producer gives its files
Names == {N1, N2, N10, N3P, NX, NT}

AllDigits == {"0", "1", "2", "3", "4", "5", "6", "7", "8", "9"}

\* re.match("^[0-9]+-.+json$", each_file)
MatchesEventName(each_file) ==
    LET d == SkipClass(each_file, 1, AllDigits)
        n == Len(each_file)
    IN  /\ d > 1
        /\ At(each_file, d) = "-"
        /\ n >= d + 5
        /\ SubSeq(each_file, n - 3, n) = <<"j", "s", "o", "n">>
        /\ \A i \in (d + 1)..(n - 4) : each_file[i] # NL

\* '-partial' in each_file
IsPartial(each_file) ==
    Contains(each_file, <<"-", "p", "a", "r", "t", "i", "a", "l">>)

DigitValue(c) ==
    CASE c = "0" -> 0 [] c = "1" -> 1 [] c = "2" -> 2 [] c = "3" -> 3 [] c = "4" -> 4
      [] c = "5" -> 5 [] c = "6" -> 6 [] c = "7" -> 7 [] c = "8" -> 8 [] c = "9" -> 9

RECURSIVE ParseInt(_)
\* int(digits)
ParseInt(digits) ==
    IF digits = <<>> THEN 0
    ELSE 10 * ParseInt(SubSeq(digits, 1, Len(digits) - 1)) + DigitValue(digits[Len(digits)])

\* filenm.split("-", 1)[0]
BeforeDash(filenm) ==
    LET dashes == {i \in 1..Len(filenm) : filenm[i] = "-"}
    IN  IF dashes = {} THEN filenm
        ELSE SubSeq(filenm, 1, (CHOOSE i \in dashes : \A j \in dashes : i <= j) - 1)

\* the sort key of line 270
SortKey(filenm) == ParseInt(BeforeDash(filenm))

\* a filter that forgets the -partial test
IsNewEventPartialToo(each_file, old_events) ==
    /\ MatchesEventName(each_file)
    /\ each_file \notin old_events

\* lines 267-268: the file is a finished event file not collected before
IsNewEvent(each_file, old_events) ==
    /\ MatchesEventName(each_file)
    /\ ~IsPartial(each_file)
    /\ each_file \notin old_events

RECURSIVE SortedByKey(_)
\* line 270: the names in ascending order of their keys (no two names the
\* producer uses have the same key, so the order of os.listdir does not show)
SortedByKey(files) ==
    IF files = {} THEN <<>>
    ELSE LET first == CHOOSE x \in files : \A y \in files : SortKey(x) <= SortKey(y)
         IN  <<first>> \o SortedByKey(files \ {first})

\* what a file holds: a complete JSON document or one still being written
Complete(name) == [json |-> TRUE, event |-> name]
Incomplete == [json |-> FALSE, event |-> <<>>]

\* json.load(event_file_actual): the event, or ValueError
json_load(content) == IF content.json THEN [ok |-> TRUE, event |-> content.event]
                      ELSE [ok |-> FALSE, event |-> <<>>]

NoGen == [state |-> "none", todo |-> <<>>, listed |-> {}, seen0 |-> {}, failed |-> <<>>]

\* the producer creates a file, complete or still being written
CreateFileOf(names) ==
    /\ \E name \in names \ DOMAIN evdir :
          \E content \in {Complete(name), Incomplete} :
             evdir' = [n \in DOMAIN evdir \cup {name} |->
                          IF n = name THEN content ELSE evdir[n]]
    /\ UNCHANGED <<seen, gen, yielded, opened, collected, polls, filterVars, artifactVars, utilVars>>

\* the producer finishes writing a file
FinishFile ==
    /\ \E name \in DOMAIN evdir :
          /\ ~evdir[name].json
          /\ evdir' = [evdir EXCEPT ![name] = Complete(name)]
    /\ UNCHANGED <<seen, gen, yielded, opened, collected, polls, filterVars, artifactVars, utilVars>>

\* lines 264-270, run by the first next() of a new call
ListDir ==
    /\ gen.state \in {"none", "done"}
    /\ gen' = [ state |-> "running",
                todo |-> SortedByKey({f \in DOMAIN evdir : IsNewEvent(f, seen)}),
                listed |-> DOMAIN evdir,      \* what os.listdir returned
                seen0 |-> seen,               \* old_events when the call started
                failed |-> <<>> ]             \* the file that did not parse
    /\ yielded' = <<>>

\* a new call of collect_new_events, one of at most MaxPolls
ListEvents ==
    /\ polls < MaxPolls
    /\ ListDir
    /\ polls' = polls + 1
    /\ UNCHANGED <<evdir, seen, opened, collected, filterVars, artifactVars, utilVars>>

\* lines 271-279: one pass of the loop: the file is opened and parsed; a
\* ValueError breaks out of the loop, else the name is marked and the event yielded
LoadEvent ==
    /\ gen.state = "running"
    /\ gen.todo # <<>>
    /\ LET event_file == Head(gen.todo)
           r == json_load(evdir[event_file])
       IN  IF r.ok
           THEN /\ seen' = seen \cup {event_file}
                /\ yielded' = Append(yielded, [file |-> event_file, event |-> r.event])
                /\ gen' = [gen EXCEPT !.todo = Tail(@)]
           ELSE /\ gen' = [gen EXCEPT !.state = "done", !.failed = event_file]
                /\ UNCHANGED <<seen, yielded>>

\* one pass of the loop, with the file opened and the event handed over logged
ReadEvent ==
    /\ LoadEvent
    /\ opened' = Append(opened, Head(gen.todo))
    /\ collected' = IF json_load(evdir[Head(gen.todo)]).ok
                    THEN Append(collected, Head(gen.todo))
                    ELSE collected
    /\ UNCHANGED <<evdir, polls, filterVars, artifactVars, utilVars>>

\* line 271: the list is exhausted, the generator returns
Exhausted ==
    /\ gen.state = "running"
    /\ gen.todo = <<>>
    /\ gen' = [gen EXCEPT !.state = "done"]
    /\ UNCHANGED <<evdir, seen, yielded, opened, collected, polls, filterVars, artifactVars, utilVars>>

CreateFile == CreateFileOf(Names)

NextPoll == CreateFile \/ FinishFile \/ ListEvents \/ ReadEvent \/ Exhausted

\* a caller that polls for ever: the calls are not counted and not logged
ListEventsAgain ==
    /\ ListDir
    /\ UNCHANGED <<evdir, seen, opened, collected, polls, filterVars, artifactVars, utilVars>>

ReadEventAgain ==
    /\ LoadEvent
    /\ UNCHANGED <<evdir, opened, collected, polls, filterVars, artifactVars, utilVars>>

\* the names of event files that are finished and well-formed
EventNames == {N1, N2, N10}

\* the producer creates an event file under its final name
CreateEventFile == CreateFileOf(EventNames)

NextPollForever ==
    CreateEventFile \/ FinishFile \/ ListEventsAgain \/ ReadEventAgain \/ Exhausted

(***************************************************************************)
(* The decoder fed by a caller: any sequence of write() calls, then close() *)
(***************************************************************************)
MaxWrites == 4

\* a token carrying the payload fragments frags
Token(frags) ==
    MARK \o frags[1] \o CUR \o (IF Len(frags) > 1 THEN frags[2] \o CUR ELSE <<>>) \o MARK

TokU1 == Token(<< <<"u">>, <<"1">> >>)
TokU2 == Token(<< <<"u", "2">> >>)

\* the chunks a caller writes
Chunks ==
    { <<"a", NL>>,
      <<"b">>,
      <<"a", CR, "b", NL, "c", NL, "q">>,
      TokU1,
      <<"a", NL, "b", NL>> \o TokU2 \o <<"c", NL>>,
      Token(<< <<"m">> >>),
      Token(<< <<"q">> >>),
      Token(<< <<"l">> >>),
      Token(<< <<"n">> >>),
      MARK \o <<"u", "1">>,
      CUR \o MARK }

Write ==
    /\ ~closed
    /\ nwrites < MaxWrites
    /\ \E data \in Chunks : filt' = write(filt, data)
    /\ nwrites' = nwrites + 1
    /\ UNCHANGED <<closed, stream, pos, artifactVars, pollVars, utilVars>>

Close ==
    /\ ~closed
    /\ pos = Len(stream)
    /\ filt' = close(filt)
    /\ closed' = TRUE
    /\ UNCHANGED <<nwrites, stream, pos, artifactVars, pollVars, utilVars>>

NextFilter == Write \/ Close


(***************************************************************************)
(* One fixed stream written in every possible chunking, then close()       *)
(***************************************************************************)
FixedStreams ==
    { <<"a", NL>> \o TokU1 \o <<"b", NL>>,
      <<"a", NL, "b">> \o Token(<< <<"m">> >>) \o <<"c", NL, "q">>,
      \* plain output without a token, the second with a carriage return
      <<"a", NL, NL, "b", "c", NL, "q">>,
      <<"a", NL, "b", CR, "c", NL, "q">> }

WriteChunk ==
    /\ ~closed
    /\ \E n \in 1..(Len(stream) - pos) :
          /\ filt' = write(filt, SubSeq(stream, pos + 1, pos + n))
          /\ pos' = pos + n
    /\ UNCHANGED <<closed, nwrites, stream, artifactVars, pollVars, utilVars>>

NextChunk == WriteChunk \/ Close

(***************************************************************************)
(* cleanup_folder(folder) and cleanup_artifact_dir(path, num_keep) on one  *)
(* directory, the artifact directory of a private data directory, whose    *)
(* immediate children are the artifact directories of earlier runs and     *)
(* stray plain files.                                                      *)
(***************************************************************************)
MaxClock == 4

ChildNames == {"r1", "r2", "r3"}
KeepValues == {-1, 0, 1, 2}

NoChildren == [n \in {} |-> [kind |-> "dir", mtime |-> 0]]

\* the path does not exist
MissingTree == [kind |-> "missing", children |-> NoChildren]

NoCall == [op |-> "none", num_keep |-> 0, listed |-> FALSE, exc |-> "", result |-> FALSE]

\* os.listdir(path): the names in the directory
listdir(t) == DOMAIN t.children

\* os.path.getmtime(os.path.join(path, p))
getmtime(t, p) == t.children[p].mtime

RECURSIVE sorted_by_mtime(_, _)
\* sorted(..., key=os.path.getmtime): ascending modification time (no two
\* entries of the directory have the same one)
sorted_by_mtime(t, names) ==
    IF names = {} THEN <<>>
    ELSE LET first == CHOOSE x \in names : \A y \in names : getmtime(t, x) <= getmtime(t, y)
         IN  <<first>> \o sorted_by_mtime(t, names \ {first})

\* the directory without the entry p
Without(t, p) == [t EXCEPT !.children = [n \in DOMAIN t.children \ {p} |-> t.children[n]]]

\* shutil.rmtree(entry) of an entry of the directory: a directory is deleted
\* with all it holds, a plain file makes os.scandir raise NotADirectoryError
rmtree_entry(t, p) ==
    IF t.children[p].kind = "dir"
    THEN [tree |-> Without(t, p), exc |-> ""]
    ELSE [tree |-> t, exc |-> "NotADirectoryError"]

RECURSIVE RemoveOldest(_, _, _, _)
\* lines 182-183: for f in range(total_remove): shutil.rmtree(all_paths[f]),
\* f counted from 1 here
RemoveOldest(t, all_paths, f, total_remove) ==
    IF f > total_remove THEN [tree |-> t, exc |-> ""]
    ELSE LET r == rmtree_entry(t, all_paths[f])
         IN  IF r.exc # "" THEN r
             ELSE RemoveOldest(r.tree, all_paths, f + 1, total_remove)

\* cleanup_artifact_dir(path, num_keep): the directory afterwards, whether it
\* was listed, and the exception raised ("" for none)
cleanup_artifact_dir(t, num_keep) ==
    IF num_keep < 1 THEN [tree |-> t, listed |-> FALSE, exc |-> ""]
    ELSE IF t.kind = "missing"
    THEN [tree |-> t, listed |-> FALSE, exc |-> "FileNotFoundError"]    \* os.listdir
    ELSE IF t.kind = "file"
    THEN [tree |-> t, listed |-> FALSE, exc |-> "NotADirectoryError"]   \* os.listdir
    ELSE LET all_paths == sorted_by_mtime(t, listdir(t))
             total_remove == Len(all_paths) - num_keep
             r == RemoveOldest(t, all_paths, 1, total_remove)
         IN  [tree |-> r.tree, listed |-> TRUE, exc |-> r.exc]

\* cleanup_folder(folder): the directory afterwards and the value returned
cleanup_folder(t) ==
    IF t.kind = "dir"
    THEN [tree |-> MissingTree, result |-> TRUE]
    ELSE [tree |-> t, result |-> FALSE]    \* FileNotFoundError, NotADirectoryError

\* a call cleanup_artifact_dir(path, num_keep)
Rotate ==
    /\ \E num_keep \in KeepValues :
          LET r == cleanup_artifact_dir(tree, num_keep)
          IN  /\ tree' = r.tree
              /\ lastcall' = [op |-> "cleanup_artifact_dir", num_keep |-> num_keep,
                          listed |-> r.listed, exc |-> r.exc, result |-> FALSE]
    /\ UNCHANGED <<clock, fifoVars, signalVars, filterVars, artifactVars, pollVars>>

\* a call cleanup_folder(folder)
Delete ==
    /\ LET r == cleanup_folder(tree)
       IN  /\ tree' = r.tree
           /\ lastcall' = [op |-> "cleanup_folder", num_keep |-> 0,
                       listed |-> FALSE, exc |-> "", result |-> r.result]
    /\ UNCHANGED <<clock, fifoVars, signalVars, filterVars, artifactVars, pollVars>>

\* a run creates the path, as a directory or (by mistake) as a plain file
MakePath ==
    /\ tree.kind = "missing"
    /\ \E kind \in {"dir", "file"} : tree' = [kind |-> kind, children |-> NoChildren]
    /\ UNCHANGED <<clock, lastcall, fifoVars, signalVars, filterVars, artifactVars, pollVars>>

\* a run adds its artifact directory, or something leaves a plain file
MakeEntry ==
    /\ tree.kind = "dir"
    /\ clock < MaxClock
    /\ \E p \in ChildNames \ DOMAIN tree.children :
          \E kind \in {"dir", "file"} :
             tree' = [tree EXCEPT !.children =
                         [n \in DOMAIN tree.children \cup {p} |->
                             IF n = p THEN [kind |-> kind, mtime |-> clock + 1]
                             ELSE tree.children[n]]]
    /\ clock' = clock + 1
    /\ UNCHANGED <<lastcall, fifoVars, signalVars, filterVars, artifactVars, pollVars>>

\* an entry is modified: it becomes the most recent one
TouchEntry ==
    /\ tree.kind = "dir"
    /\ clock < MaxClock
    /\ \E p \in DOMAIN tree.children :
          tree' = [tree EXCEPT !.children[p].mtime = clock + 1]
    /\ clock' = clock + 1
    /\ UNCHANGED <<lastcall, fifoVars, signalVars, filterVars, artifactVars, pollVars>>

NextRotate == Rotate \/ Delete \/ MakePath \/ MakeEntry \/ TouchEntry

RotateAtRest ==
    /\ tree = MissingTree
    /\ clock = 0
    /\ lastcall = NoCall

(***************************************************************************)
(* open_fifo_write(path, data): the caller, the worker thread it starts    *)
(* and the external process that reads the pipe                            *)
(***************************************************************************)
FifoPaths == {"p", "q"}

\* the values callers pass as data, by type
DataValues == {[type |-> "str", text |-> "k"], [type |-> "bytes", text |-> "k"],
               [type |-> "bytes", text |-> ""], [type |-> "int", text |-> "5"],
               [type |-> "NoneType", text |-> ""]}

\* lines 423-424: if isinstance(data, str): data = data.encode()
encode(data) == IF data.type = "str" THEN [type |-> "bytes", text |-> data.text] ELSE data

\* fh.write(data) on a file opened 'wb' takes a bytes-like object
IsBytesLike(data) == data.type = "bytes"

NoFifo ==
    [ exists |-> FALSE,
      data |-> [type |-> "NoneType", text |-> ""],   \* the args of the worker
      given |-> "NoneType",      \* the type of the data the caller passed
      worker |-> "none",         \* none, started, opened, done, raised
      worker_exc |-> "",
      reader |-> "none",         \* none, open
      received |-> "" ]

NoFifoCall == [path |-> "", type |-> "NoneType", exc |-> "", returned |-> FALSE]

\* open_fifo_write(path, data), all of it: os.mkfifo, the conversion of a
\* str, and the start of the thread
OpenFifoWrite ==
    /\ \E path \in FifoPaths, data \in DataValues :
          IF fifos[path].exists
          THEN \* line 421: os.mkfifo raises FileExistsError
               /\ fcall' = [path |-> path, type |-> data.type,
                            exc |-> "FileExistsError", returned |-> FALSE]
               /\ fifos' = fifos
          ELSE /\ fcall' = [path |-> path, type |-> data.type, exc |-> "", returned |-> TRUE]
               /\ fifos' = [fifos EXCEPT ![path] =
                              [NoFifo EXCEPT !.exists = TRUE,
                                             !.data = encode(data),
                                             !.given = data.type,
                                             !.worker = "started"]]
    /\ UNCHANGED <<rotateVars, signalVars, filterVars, artifactVars, pollVars>>

\* the external process opens the pipe for reading
ReaderOpen ==
    /\ \E path \in FifoPaths :
          /\ fifos[path].exists
          /\ fifos[path].reader = "none"
          /\ fifos' = [fifos EXCEPT ![path].reader = "open"]
    /\ UNCHANGED <<fcall, rotateVars, signalVars, filterVars, artifactVars, pollVars>>

\* line 427: open(path, 'wb') returns once a reader has the pipe open
WorkerOpen ==
    /\ \E path \in FifoPaths :
          /\ fifos[path].worker = "started"
          /\ fifos[path].reader = "open"
          /\ fifos' = [fifos EXCEPT ![path].worker = "opened"]
    /\ UNCHANGED <<fcall, rotateVars, signalVars, filterVars, artifactVars, pollVars>>

\* line 428 and the end of the with block: fh.write(data), TypeError in the
\* thread when data is not bytes-like
WorkerWrite ==
    /\ \E path \in FifoPaths :
          /\ fifos[path].worker = "opened"
          /\ fifos' = IF IsBytesLike(fifos[path].data)
                      THEN [fifos EXCEPT ![path].worker = "done",
                                         ![path].received = fifos[path].data.text]
                      ELSE [fifos EXCEPT ![path].worker = "raised",
                                         ![path].worker_exc = "TypeError"]
    /\ UNCHANGED <<fcall, rotateVars, signalVars, filterVars, artifactVars, pollVars>>

NextFifo == OpenFifoWrite \/ ReaderOpen \/ WorkerOpen \/ WorkerWrite

FifoAtRest ==
    /\ fifos = [path \in FifoPaths |-> NoFifo]
    /\ fcall = NoFifoCall

(***************************************************************************)
(* signal_handler(): the calls, the delivery of SIGTERM and SIGINT, and    *)
(* the predicates the calls returned.  Handler 0 is the one in place       *)
(* before the first call; handler k is the _handler closure of call k,     *)
(* which sets events[k].                                                   *)
(***************************************************************************)
MaxHandlers == 3

Signals == {"SIGTERM", "SIGINT"}

\* the value returned to a thread that is not the main thread
ReturnedNone == [pred |-> 0, original_handlers |-> <<0, 0>>]

MainIdle == [at |-> "idle", original_term |-> 0]

\* the calls that have returned a predicate
ReturnedCalls ==
    IF mainpc.at = "L527" THEN 1..(Len(events) - 1) ELSE 1..Len(events)

\* lines 513-526 on the main thread: the new event and closure, and _handler
\* installed for SIGTERM
SignalHandlerBegin ==
    /\ mainpc.at = "idle"
    /\ Len(events) < MaxHandlers
    /\ events' = Append(events, FALSE)
    /\ owed' = Append(owed, FALSE)
    /\ said' = Append(said, {})
    /\ handlers' = [handlers EXCEPT !["SIGTERM"] = Len(events) + 1]
    /\ mainpc' = [at |-> "L527", original_term |-> handlers["SIGTERM"]]
    /\ UNCHANGED <<ret, rotateVars, fifoVars, filterVars, artifactVars, pollVars>>

\* lines 527-530: _handler installed for SIGINT, the predicate and the
\* handlers found are returned
SignalHandlerEnd ==
    /\ mainpc.at = "L527"
    /\ handlers' = [handlers EXCEPT !["SIGINT"] = Len(events)]
    /\ ret' = [pred |-> Len(events),
               original_handlers |-> <<mainpc.original_term, handlers["SIGINT"]>>]
    /\ mainpc' = MainIdle
    /\ UNCHANGED <<events, owed, said, rotateVars, fifoVars, filterVars, artifactVars, pollVars>>

\* lines 513-514: a call from another thread returns None and changes nothing
SignalHandlerOffMain ==
    /\ mainpc.at # "killed"
    /\ ret' = ReturnedNone
    /\ UNCHANGED <<handlers, events, owed, said, mainpc,
                   rotateVars, fifoVars, filterVars, artifactVars, pollVars>>

\* a signal is delivered: the installed handler runs; _handler of call k sets
\* events[k] (line 521); the handler in place before the first call ends the
\* program
Deliver ==
    /\ mainpc.at # "killed"
    /\ \E sig \in Signals :
          LET h == handlers[sig]
          IN  /\ events' = IF h = 0 THEN events ELSE [events EXCEPT ![h] = TRUE]
              /\ mainpc' = IF h = 0 THEN [mainpc EXCEPT !.at = "killed"] ELSE mainpc
              /\ owed' = [k \in 1..Len(owed) |->
                             owed[k] \/ k \in ReturnedCalls \/ k = h]
    /\ UNCHANGED <<handlers, said, ret, rotateVars, fifoVars, filterVars, artifactVars, pollVars>>

\* line 530, signal_event.is_set: the predicate a call returned is called
Poll ==
    /\ mainpc.at # "killed"
    /\ \E k \in ReturnedCalls :
          said' = [said EXCEPT ![k] =
                      @ \cup {[ value |-> events[k],    \* what is_set() reports
                                owed |-> owed[k],       \* a signal came since the call
                                after_true |-> \E r \in said[k] : r.value ]}]
    /\ UNCHANGED <<handlers, events, owed, mainpc, ret,
                   rotateVars, fifoVars, filterVars, artifactVars, pollVars>>

NextSignal ==
    SignalHandlerBegin \/ SignalHandlerEnd \/ SignalHandlerOffMain \/ Deliver \/ Poll

SignalAtRest ==
    /\ handlers = [sig \in Signals |-> 0]
    /\ events = <<>>
    /\ owed = <<>>
    /\ said = <<>>
    /\ mainpc = MainIdle
    /\ ret = ReturnedNone

UtilAtRest == RotateAtRest /\ FifoAtRest /\ SignalAtRest

(***************************************************************************)
(* Specifications: each runs one component and leaves the others at rest   *)
(***************************************************************************)
\* a decoder nobody writes to
FilterAtRest ==
    /\ filt = OutputEventFilter(FALSE)
    /\ closed = FALSE
    /\ nwrites = 0
    /\ stream = <<>>
    /\ pos = 0

PollAtRest ==
    /\ evdir = [n \in {} |-> Incomplete]
    /\ seen = {}
    /\ gen = NoGen
    /\ yielded = <<>>
    /\ opened = <<>>
    /\ collected = <<>>
    /\ polls = 0

\* any sequence of write() calls, then close()
InitFilter ==
    /\ filt \in {OutputEventFilter(oj) : oj \in BOOLEAN}
    /\ closed = FALSE
    /\ nwrites = 0
    /\ stream = <<>>
    /\ pos = 0
    /\ ArtifactAtRest
    /\ PollAtRest
    /\ UtilAtRest

Init == InitFilter
Next == NextFilter
Spec == Init /\ [][Next]_vars

\* one fixed stream in any chunking, then close()
InitChunk ==
    /\ filt \in {OutputEventFilter(oj) : oj \in BOOLEAN}
    /\ closed = FALSE
    /\ nwrites = 0
    /\ stream \in FixedStreams
    /\ pos = 0
    /\ ArtifactAtRest
    /\ PollAtRest
    /\ UtilAtRest

SpecChunk == InitChunk /\ [][NextChunk]_vars

\* concurrent callers, on a new directory or on one where f holds "x"
InitConcurrent ==
    /\ FilterAtRest
    /\ PollAtRest
    /\ UtilAtRest
    /\ proc = [p \in Procs |-> IdleProc]
    /\ fs \in {EmptyDir, [EmptyDir EXCEPT !.dir = TRUE, !.files["f"] = <<"x">>]}
    /\ calls = 0

InitSeq == FilterAtRest /\ PollAtRest /\ UtilAtRest /\ InitArtifact

InitPoll == FilterAtRest /\ ArtifactAtRest /\ PollAtRest /\ UtilAtRest
SpecPoll == InitPoll /\ [][NextPoll]_vars

\* the caller calls again and again and consumes every call to its end; the
\* producer may leave a file unfinished for ever
InitPollForever == FilterAtRest /\ ArtifactAtRest /\ PollAtRest /\ UtilAtRest
SpecPollForever ==
    /\ InitPollForever
    /\ [][NextPollForever]_vars
    /\ WF_vars(ListEventsAgain)
    /\ WF_vars(ReadEventAgain)
    /\ WF_vars(Exhausted)

SpecArtifact == InitConcurrent /\ [][NextArtifact]_vars
SpecSeq == InitSeq /\ [][NextSeq]_vars

\* cleanup calls on a directory that runs create, fill and touch
InitRotate ==
    /\ FilterAtRest /\ ArtifactAtRest /\ PollAtRest
    /\ RotateAtRest /\ FifoAtRest /\ SignalAtRest
SpecRotate == InitRotate /\ [][NextRotate]_vars

\* open_fifo_write calls, their worker threads and the readers of the pipes
InitFifo ==
    /\ FilterAtRest /\ ArtifactAtRest /\ PollAtRest
    /\ FifoAtRest /\ RotateAtRest /\ SignalAtRest
SpecFifo == InitFifo /\ [][NextFifo]_vars

\* signal_handler calls, signal deliveries and calls of the predicates
InitSignal ==
    /\ FilterAtRest /\ ArtifactAtRest /\ PollAtRest
    /\ SignalAtRest /\ RotateAtRest /\ FifoAtRest
SpecSignal == InitSignal /\ [][NextSignal]_vars


(***************************************************************************)
(* Properties of the decoder                                               *)
(***************************************************************************)
IsEOF(ev) == ev = EOF_event

\* the events passed to the callback, the terminal EOF event excluded
JobEvents(f) == SelectSeq(f.callback, LAMBDA ev : ~IsEOF(ev))

Count(seq, P(_)) == Cardinality({i \in 1..Len(seq) : P(seq[i])})

HasUuid(ev, u) == "uuid" \in Keys(ev) /\ ev["uuid"] = u

\* C1: the counter values of the events passed to the callback (EOF excluded)
\* are exactly 1, 2, ..., N in the order the callback is invoked.
C1_CountersAreOneToN ==
    LET evs == JobEvents(filt)
    IN  \A i \in 1..Len(evs) : evs[i]["counter"] = i

\* C1 witness: a closed decoder that passed on verbose events and a payload event
C1_Witness ==
    /\ closed
    /\ Len(JobEvents(filt)) >= 4
    /\ \E i \in 1..Len(filt.callback) : HasUuid(filt.callback[i], "u1")

\* C2: the first event starts at line 0, every later event starts where the one
\* before it ended, and end_line - start_line is the number of newlines of the
\* chunk the event was made from.
C2_LineRangesContiguous ==
    LET evs == JobEvents(filt)
    IN  \A i \in 1..Len(evs) :
           /\ evs[i]["start_line"] = (IF i = 1 THEN 0 ELSE evs[i - 1]["end_line"])
           /\ evs[i]["end_line"] - evs[i]["start_line"] = count_newlines(filt.chunks[i])

\* C2 witness: events of zero, one and two newlines have been passed on
C2_Witness ==
    /\ closed
    /\ \A k \in 0..2 : \E i \in 1..Len(JobEvents(filt)) :
          JobEvents(filt)[i]["end_line"] - JobEvents(filt)[i]["start_line"] = k

CompareKeys == {"event", "stdout", "counter", "start_line", "end_line"}
\* the kind, stdout, counter and line range of every event of a sequence
Projected(evs) ==
    [i \in 1..Len(evs) |-> [k \in Keys(evs[i]) \cap CompareKeys |-> evs[i][k]]]

\* C3: whatever the chunking of a stream with one token, the closed decoder has
\* passed on the same events as a decoder given the stream in a single write.
C3_ChunkingInvariant ==
    (closed /\ Contains(stream, MARK)) =>
        Projected(filt.callback) =
            Projected(close(write(OutputEventFilter(filt.output_json), stream)).callback)

\* C7: when close() has returned, every payload with a uuid that was decoded has
\* been passed to the callback exactly once.
C7_PayloadsDelivered ==
    closed =>
        \A u \in {"u1", "u2"} :
            Count(filt.callback, LAMBDA ev : HasUuid(ev, u))
                = Count(filt.decoded, LAMBDA d : d = u)

\* C8: no call of write() raises.
C8_WriteNeverRaises == filt.raised = ""

RECURSIVE Concat(_)
Concat(seqs) == IF seqs = <<>> THEN <<>> ELSE Head(seqs) \o Concat(Tail(seqs))

\* C9: close() passes EOF exactly once and last; the text still buffered was
\* passed on before it, and the buffer is empty afterwards.
C9_CloseEmitsEOFLast ==
    [][ (~closed /\ closed') =>
          LET old == filt.callback
              new == filt'.callback
              n == Len(new)
          IN  /\ n >= Len(old) + 1
              /\ SubSeq(new, 1, Len(old)) = old
              /\ IsEOF(new[n])
              /\ \A i \in (Len(old) + 1)..(n - 1) : ~IsEOF(new[i])
              /\ Concat(SubSeq(filt'.chunks, Len(old) + 1, n - 1)) = filt.buffer
              /\ filt'.buffer = <<>> ]_vars

\* C9 witness: closed with text that was still buffered, a payload pending
C9_Witness ==
    /\ closed
    /\ Len(filt.callback) >= 2
    /\ LET n == Len(filt.callback)
       IN  /\ HasUuid(filt.callback[n - 1], "u2")
           /\ filt.chunks[n - 1] # <<>>

(***************************************************************************)
(* Properties of dump_artifact                                             *)
(***************************************************************************)
\* between the return of lockf(LOCK_EX) and lockf(LOCK_UN)
WriteSection == {"L162", "L164", "L166"}

\* the call of p is over
Over(p) == proc[p].pc \in {"returned", "raised"}

\* C4: at most one process at a time is in the write section.
C4_MutualExclusion ==
    Cardinality({p \in Procs : proc[p].pc \in WriteSection}) <= 1

\* C5: of two processes that called with the same filename and content while
\* the target did not hold that content, and no third caller, exactly one
\* opened the target for writing.
C5_ExactlyOneWriter ==
    \A p, q \in Procs :
        ( /\ p # q
          /\ Over(p) /\ Over(q)
          /\ proc[p].obj = proc[q].obj /\ proc[p].filename = proc[q].filename
          /\ proc[p].pre # proc[p].obj /\ proc[q].pre # proc[q].obj
          /\ \A r \in Procs \ {p, q} : proc[r].pc = "idle" )
        => proc[p].writes + proc[q].writes = 1

\* C6: a call made while no other call is under way never raises; when it is
\* about to return the target holds its content; it wrote the target once (and
\* opened the sentinel once) when the target held other content or was absent,
\* and wrote nothing and left the sentinel alone when the target held its
\* content; it returns directory/filename.
C6_SequentialWrites ==
    \A p \in Procs :
        /\ proc[p].pc # "raised"
        /\ proc[p].pc = "L170" =>
              /\ fs.files[proc[p].filename] = proc[p].obj
              /\ proc[p].writes = (IF proc[p].pre = proc[p].obj THEN 0 ELSE 1)
              /\ proc[p].opens = proc[p].writes
        /\ proc[p].pc = "returned" => proc[p].result = path_join("dir", proc[p].filename)

(***************************************************************************)
(* Properties of collect_new_events                                        *)
(***************************************************************************)
\* the names of Names that match ^[0-9]+-.+json$ and hold no -partial, with
\* the integer before their first '-'
FinishedNames == {N1, N2, N10}
SeqNo(name) == CASE name = N1 -> 1 [] name = N2 -> 2 [] name = N10 -> 10

\* the files a call has to consider: listed, finished, not in seen at its start
Candidates == {n \in gen.listed \cap FinishedNames : n \notin gen.seen0}

YieldedNames == {yielded[i].file : i \in 1..Len(yielded)}

\* what is yielded is a new finished file, in ascending numeric order, with the
\* event the file holds, and its name is in seen
YieldedWell ==
    /\ YieldedNames \subseteq Candidates
    /\ \A i, j \in 1..Len(yielded) :
          i < j => SeqNo(yielded[i].file) < SeqNo(yielded[j].file)
    /\ \A i \in 1..Len(yielded) : yielded[i].event = evdir[yielded[i].file].event
    /\ YieldedNames \subseteq seen

\* C10 as stated: a call, fully consumed, has yielded exactly the new finished
\* files of the directory, in ascending numeric order.
C10_YieldsAllNew ==
    /\ gen.state # "none" => YieldedWell
    /\ gen.state = "done" => YieldedNames = Candidates

\* C10 amended: a call, fully consumed, has yielded exactly the new finished
\* files sorted before the first one that failed to parse, all of them when
\* every one parsed, in ascending numeric order.
C10_YieldsNewUntilUnparsable ==
    /\ gen.state # "none" => YieldedWell
    /\ gen.state = "done" =>
          IF gen.failed = <<>>
          THEN YieldedNames = Candidates
          ELSE /\ gen.failed \in Candidates
               /\ YieldedNames = {n \in Candidates : SeqNo(n) < SeqNo(gen.failed)}

\* C10 witness: a finished call that yielded 1-a.json then 2-b.json, passed
\* over the partial file and stopped at 10-c.json
C10_Witness ==
    /\ gen.state = "done"
    /\ gen.failed = N10
    /\ Len(yielded) = 2
    /\ yielded[1].file = N1 /\ yielded[2].file = N2
    /\ {N3P, NX, NT} \subseteq gen.listed

\* no value occurs twice in the sequence
NoDuplicates(seq) == \A i, j \in 1..Len(seq) : i # j => seq[i] # seq[j]

\* the poller has taken a step: it listed the directory, read a file or returned
PollerStep == ListEvents \/ ReadEvent \/ Exhausted

\* C11: when a file failed to parse, the pass is over, nothing sorted after the
\* file was yielded, what was yielded before stays yielded, and the name of the
\* file is in the seen set, so that no later pass opens the file again.
C11_UnparsableMarkedSeen ==
    /\ gen.failed # <<>> =>
          /\ gen.state = "done"
          /\ \A i \in 1..Len(yielded) : SeqNo(yielded[i].file) < SeqNo(gen.failed)
          /\ YieldedNames \subseteq seen
          /\ gen.failed \in seen
    /\ NoDuplicates(opened)

\* C16: over all calls every file is opened at most once and its event is
\* handed to the caller at most once, and no step of the poller changes the
\* event directory.
C16_ReadAtMostOnce ==
    /\ [](\A name \in Names :
            /\ Count(opened, LAMBDA f : f = name) <= 1
            /\ Count(collected, LAMBDA f : f = name) <= 1)
    /\ [][PollerStep => evdir' = evdir]_vars

(***************************************************************************)
(* More properties of dump_artifact                                        *)
(***************************************************************************)
\* the call of p opened the sentinel: it entered the write section of lines 157-168
EnteredWriteSection(p) == proc[p].opens > 0

\* C18: a call that entered the write section never raises (the removal of the
\* sentinel does not fail), it returns directory/filename, and when every call
\* is over no sentinel is left in the directory.
C18_SentinelRemovalNeverFails ==
    /\ \A p \in Procs :
          EnteredWriteSection(p) =>
              /\ proc[p].pc # "raised"
              /\ proc[p].pc = "returned" => proc[p].result = path_join("dir", proc[p].filename)
    /\ ( /\ \A p \in Procs : proc[p].pc \in Quiet
         /\ \E p \in Procs : EnteredWriteSection(p) )
       => fs.lock_fp = 0

(***************************************************************************)
(* More properties of the decoder                                          *)
(***************************************************************************)
IsVerbose(ev) == "event" \in Keys(ev) /\ ev["event"] = "verbose"

\* C20: with plain-text echo, when close() has returned every verbose event
\* passed to the callback has its stdout written to the transcript exactly
\* once, and the transcript holds these lines in the order of the callback.
C20_VerboseLinesInTranscript ==
    (closed /\ ~filt.output_json) =>
        /\ \A i \in 1..Len(filt.callback) :
              IsVerbose(filt.callback[i]) =>
                  /\ Count(filt.handle,
                           LAMBDA h : h.counter = filt.callback[i]["counter"]) = 1
                  /\ \A k \in 1..Len(filt.handle) :
                        filt.handle[k].counter = filt.callback[i]["counter"]
                            => rstrip(filt.handle[k].text) = filt.callback[i]["stdout"]
        /\ \A j, k \in 1..Len(filt.handle) :
              j < k => filt.handle[j].counter < filt.handle[k].counter

\* the stream written so far
Received == SubSeq(stream, 1, pos)

\* the index of the last \n of s, 0 when it has none
LastNewline(s) ==
    LET nls == {i \in 1..Len(s) : s[i] = NL}
    IN  IF nls = {} THEN 0 ELSE CHOOSE i \in nls : \A j \in nls : j <= i

RECURSIVE NewlineTerminatedLines(_)
\* the lines of s that end with \n, each with its \n; what follows the last \n
\* is left out
NewlineTerminatedLines(s) ==
    LET nls == {i \in 1..Len(s) : s[i] = NL}
        e == CHOOSE i \in nls : \A j \in nls : i <= j
    IN  IF nls = {} THEN <<>>
        ELSE <<SubSeq(s, 1, e)>> \o NewlineTerminatedLines(SubSeq(s, e + 1, Len(s)))

\* C17: for a stream without a token marker, after a write whose chunk holds a
\* newline the callback has received one verbose event for every
\* newline-terminated line written so far, in order, and the buffer holds
\* what follows the last newline; a write whose chunk holds no newline passes
\* nothing on and appends the chunk to the buffer.
C17_OneEventPerLine ==
    /\ []( ( /\ ~Contains(stream, MARK)
             /\ ~closed
             /\ \E i \in 1..Len(filt.last_chunk) : filt.last_chunk[i] = NL )
           => LET lines == NewlineTerminatedLines(Received)
              IN  /\ Len(filt.callback) = Len(lines)
                  /\ \A i \in 1..Len(lines) :
                        /\ IsVerbose(filt.callback[i])
                        /\ filt.callback[i]["stdout"] = rstrip(lines[i])
                  /\ filt.buffer = SubSeq(Received, LastNewline(Received) + 1, pos)
                  /\ \A i \in 1..Len(filt.buffer) : filt.buffer[i] # NL )
    /\ [][ ( /\ ~Contains(stream, MARK)
             /\ pos' > pos
             /\ \A i \in (pos + 1)..pos' : stream[i] # NL )
           => /\ filt'.callback = filt.callback
              /\ filt'.buffer = filt.buffer \o SubSeq(stream, pos + 1, pos') ]_vars

(***************************************************************************)
(* More properties of collect_new_events                                   *)
(***************************************************************************)
\* the file is finished and holds valid JSON
Parsable(name) == name \in DOMAIN evdir /\ evdir[name].json

\* C19: with a caller that polls again and again, every finished file that
\* holds valid JSON is eventually yielded (its name enters the seen set, which
\* happens when and only when its event is yielded).
C19_EveryValidFileEventuallyYielded ==
    \A name \in FinishedNames : Parsable(name) ~> (name \in seen)

(***************************************************************************)
(* Properties of cleanup_artifact_dir and cleanup_folder                   *)
(***************************************************************************)
Min(a, b) == IF a <= b THEN a ELSE b

\* the k most recently modified entries of directory t
MostRecent(t, k) ==
    {p \in DOMAIN t.children :
        Cardinality({q \in DOMAIN t.children : getmtime(t, q) > getmtime(t, p)}) < k}

\* C12: a call with num_keep < 1 lists and deletes nothing; a call with
\* num_keep >= 1 on a directory of n entries, directories or plain files,
\* returns normally and leaves exactly the min(n, num_keep) most recently
\* modified entries, unchanged.
C12_KeepsMostRecent ==
    [][ (Rotate /\ tree.kind = "dir") =>
          IF lastcall'.num_keep < 1
          THEN ~lastcall'.listed /\ tree' = tree
          ELSE /\ lastcall'.exc = ""
               /\ tree'.kind = "dir"
               /\ DOMAIN tree'.children = MostRecent(tree, lastcall'.num_keep)
               /\ Cardinality(DOMAIN tree'.children)
                     = Min(Cardinality(DOMAIN tree.children), lastcall'.num_keep)
               /\ \A p \in DOMAIN tree'.children : tree'.children[p] = tree.children[p]
      ]_vars

\* C13: cleanup_folder, and cleanup_artifact_dir with num_keep >= 1, called on
\* a path that does not exist raise nothing and change nothing.
C13_MissingTargetIsNoOp ==
    [][ ( /\ tree.kind = "missing"
          /\ Delete \/ (Rotate /\ lastcall'.num_keep >= 1) )
        => /\ lastcall'.exc = ""
           /\ tree' = tree
      ]_vars

(***************************************************************************)
(* Properties of open_fifo_write                                           *)
(***************************************************************************)
TextOrBytes == {"str", "bytes"}

\* C14: a call whose data is neither str nor bytes raises TypeError in the
\* caller, and no worker thread is ever started for such data.
C14_BadDataRaisesInCaller ==
    /\ (fcall.path # "" /\ fcall.type \notin TextOrBytes) => fcall.exc = "TypeError"
    /\ \A path \in FifoPaths :
          fifos[path].worker # "none" => fifos[path].given \in TextOrBytes

(***************************************************************************)
(* Properties of signal_handler                                            *)
(***************************************************************************)
\* C15: whatever calls and deliveries follow, the predicate a call returned
\* reports true exactly when SIGTERM or SIGINT has been delivered since that
\* call, and having reported true it never reports false.
C15_PredicateFollowsDelivery ==
    \A k \in 1..Len(said) :
        \A r \in said[k] :
            /\ r.value = r.owed
            /\ r.after_true => r.value

====
